---- MODULE Spec2Model ----
(***************************************************************************)
(* Model of the password strength analyzer (password_str.py, app.py).      *)
(*                                                                         *)
(* A password is a sequence of Unicode code points (what ord() returns).   *)
(* Entropy is kept in hundredths of a bit: calculate_entropy rounds to two *)
(* decimals and every penalty is a whole number of bits, so all the        *)
(* comparisons of check_strength are decided exactly on the hundredths.    *)
(* Feedback messages are modelled by a tag and the values interpolated     *)
(* into the f-string.                                                      *)
(***************************************************************************)
EXTENDS Integers, Sequences, FiniteSets, TLC

VARIABLES
    dictionary_words,  \* the module-level set loaded by load_dictionary()
    iterOrder,         \* the order in which this process iterates that set
    password,          \* request.form["password"], as code points
    typed,             \* number of pieces the user has typed into the field
    result,            \* what home() got from check_strength, or None
    entropyArg,        \* estimate_crack_time: argument entropy (hundredths)
    speedArg,          \* estimate_crack_time: argument attack_speed
    crackOut,          \* estimate_crack_time: the returned string, or None
    detected           \* what a detector called on its own returned, or None

vars == <<dictionary_words, iterOrder, password, typed, result,
          entropyArg, speedArg, crackOut, detected>>

None == [none |-> TRUE]

-----------------------------------------------------------------------------
(* Bounds of the model *)

\* number of pieces typed into the password field
MaxPieces == 3
\* largest entropy, in whole bits, handed to estimate_crack_time on its own
MaxCrackBits == 80
\* longest password handed to detect_repetition on its own
MaxRepLen == 7
\* number of pieces of the passwords handed to detect_date_patterns on its own
MaxDatePieces == 4

-----------------------------------------------------------------------------
(* Strings *)

Range(s) == {s[i] : i \in 1..Len(s)}

\* password[i:j] for Python indices 0 <= i <= j (clamped to the string)
Slice(s, i, j) ==
    LET hi == IF j > Len(s) THEN Len(s) ELSE j
    IN  IF i >= hi THEN <<>> ELSE SubSeq(s, i + 1, hi)

\* needle in hay: hay[i:i+len(needle)] == needle at some 0-based index i
Contains(hay, needle) ==
    \/ needle = <<>>
    \/ \E i \in 0..(Len(hay) - Len(needle)) :
        /\ hay[i + 1] = needle[1]
        /\ \A k \in 2..Len(needle) : hay[i + k] = needle[k]

\* s[::-1]
Reverse(s) == [i \in 1..Len(s) |-> s[Len(s) + 1 - i]]

IsAsciiLower(c) == c \in 97..122
IsAsciiUpper(c) == c \in 65..90
IsAsciiDigit(c) == c \in 48..57
IsAsciiAlnum(c) == IsAsciiLower(c) \/ IsAsciiUpper(c) \/ IsAsciiDigit(c)

\* Unicode decimal digits (category Nd) of the modelled alphabet: ASCII and
\* ARABIC-INDIC. These are what \d matches and what int() converts.
IsDecimal(c) == c \in 48..57 \/ c \in 1632..1641
DecimalValue(c) == IF c \in 48..57 THEN c - 48 ELSE c - 1632

\* str.isdigit() of one character: decimal digits and the digits of category
\* No, here SUPERSCRIPT ONE, TWO, THREE.
CharIsDigit(c) == IsDecimal(c) \/ c \in {178, 179, 185}

\* str.isdigit(): non-empty and every character a digit
StrIsDigit(s) == Len(s) > 0 /\ \A i \in 1..Len(s) : CharIsDigit(s[i])

\* \w of a str pattern: alphanumerics and the underscore
IsWordChar(c) == IsAsciiAlnum(c) \/ c = 95 \/ CharIsDigit(c)

\* str.lower() of one character of the modelled alphabet
LowerChar(c) == IF IsAsciiUpper(c) THEN c + 32 ELSE c

\* password.lower()
Lower(s) == [i \in 1..Len(s) |-> LowerChar(s[i])]

\* str.isupper(): at least one cased character and no lower-case one
StrIsUpper(s) ==
    /\ \E i \in 1..Len(s) : IsAsciiUpper(s[i])
    /\ \A i \in 1..Len(s) : ~IsAsciiLower(s[i])

\* "$" without re.MULTILINE: at the end, or just before a final newline.
\* pos is the 0-based index at which the rest of the pattern has stopped.
AtDollar(s, pos) == pos = Len(s) \/ (pos = Len(s) - 1 /\ s[Len(s)] = 10)

-----------------------------------------------------------------------------
(* Module-level tables *)

\* "password", "123456", "123456789", "qwerty", "abc123", "111111", "123123",
\* "password1", "iloveyou", "admin", "welcome", "monkey", "letmein"
common_passwords == <<
    <<112, 97, 115, 115, 119, 111, 114, 100>>,
    <<49, 50, 51, 52, 53, 54>>,
    <<49, 50, 51, 52, 53, 54, 55, 56, 57>>,
    <<113, 119, 101, 114, 116, 121>>,
    <<97, 98, 99, 49, 50, 51>>,
    <<49, 49, 49, 49, 49, 49>>,
    <<49, 50, 51, 49, 50, 51>>,
    <<112, 97, 115, 115, 119, 111, 114, 100, 49>>,
    <<105, 108, 111, 118, 101, 121, 111, 117>>,
    <<97, 100, 109, 105, 110>>,
    <<119, 101, 108, 99, 111, 109, 101>>,
    <<109, 111, 110, 107, 101, 121>>,
    <<108, 101, 116, 109, 101, 105, 110>> >>

\* "qwerty", "asdfgh", "zxcvbn", "qwertyuiop", "asdfghjkl", "zxcvbnm",
\* "1qaz", "2wsx", "3edc", "4rfv", "qazwsx", "wsxedc", "edcrfv",
\* "789456", "456123", "147258", "369258"
KEYBOARD_PATTERNS == <<
    <<113, 119, 101, 114, 116, 121>>,
    <<97, 115, 100, 102, 103, 104>>,
    <<122, 120, 99, 118, 98, 110>>,
    <<113, 119, 101, 114, 116, 121, 117, 105, 111, 112>>,
    <<97, 115, 100, 102, 103, 104, 106, 107, 108>>,
    <<122, 120, 99, 118, 98, 110, 109>>,
    <<49, 113, 97, 122>>,
    <<50, 119, 115, 120>>,
    <<51, 101, 100, 99>>,
    <<52, 114, 102, 118>>,
    <<113, 97, 122, 119, 115, 120>>,
    <<119, 115, 120, 101, 100, 99>>,
    <<101, 100, 99, 114, 102, 118>>,
    <<55, 56, 57, 52, 53, 54>>,
    <<52, 53, 54, 49, 50, 51>>,
    <<49, 52, 55, 50, 53, 56>>,
    <<51, 54, 57, 50, 53, 56>> >>

-----------------------------------------------------------------------------
(* calculate_entropy *)

has_lower(s)  == \E i \in 1..Len(s) : IsAsciiLower(s[i])
has_upper(s)  == \E i \in 1..Len(s) : IsAsciiUpper(s[i])
has_digit(s)  == \E i \in 1..Len(s) : IsAsciiDigit(s[i])
has_symbol(s) == \E i \in 1..Len(s) : ~IsAsciiAlnum(s[i])

pool(s) ==
    (IF has_lower(s) THEN 26 ELSE 0) + (IF has_upper(s) THEN 26 ELSE 0)
    + (IF has_digit(s) THEN 10 ELSE 0) + (IF has_symbol(s) THEN 32 ELSE 0)

\* math.log2(p) in millionths of a bit, for the pool sizes calculate_entropy
\* can form. len * Log2Micro is exact to the hundredth for len <= 40.
Log2Micro(p) ==
    CASE p = 10 -> 3321928
      [] p = 26 -> 4700440
      [] p = 32 -> 5000000
      [] p = 36 -> 5169925
      [] p = 42 -> 5392317
      [] p = 52 -> 5700440
      [] p = 58 -> 5857981
      [] p = 62 -> 5954196
      [] p = 68 -> 6087463
      [] p = 84 -> 6392317
      [] p = 94 -> 6554589

\* round(math.log2(pool ** len(password)), 2), in hundredths of a bit
calculate_entropy(s) ==
    IF pool(s) = 0 THEN 0
    ELSE (Len(s) * Log2Micro(pool(s)) + 5000) \div 10000

-----------------------------------------------------------------------------
(* Feedback messages: the tag of the f-string, the text and the number      *)
(* interpolated into it                                                     *)

Msg(tag, text, n) == [msg |-> tag, text |-> text, n |-> n]
Plain(tag) == Msg(tag, <<>>, 0)

\* what a detector returns: (hit, penalty, description), or the exception
\* that left it
Hit(penalty, desc) == [raised |-> "", hit |-> TRUE, penalty |-> penalty, desc |-> desc]
NoHit == [raised |-> "", hit |-> FALSE, penalty |-> 0, desc |-> Plain("None")]
Raise(error) == [raised |-> error, hit |-> FALSE, penalty |-> 0, desc |-> Plain("None")]

-----------------------------------------------------------------------------
(* Adaptive feedback helpers *)

\* the four character classes of the placement patterns
InClass(c, class) ==
    CASE class = "[0-9]"         -> IsAsciiDigit(c)
      [] class = "[^0-9]"        -> ~IsAsciiDigit(c)
      [] class = "[a-zA-Z0-9]"   -> IsAsciiAlnum(c)
      [] class = "[^a-zA-Z0-9]"  -> ~IsAsciiAlnum(c)

\* re.search of ^A+B+$ : a non-empty run of class A from the start, then a
\* non-empty run of class B up to "$"
MatchTwoRuns(s, A, B) ==
    \E k \in 1..Len(s) :
        /\ \A i \in 1..k : InClass(s[i], A)
        /\ \E p \in {Len(s) - 1, Len(s)} :
            /\ p > k
            /\ AtDollar(s, p)
            /\ \A i \in (k + 1)..p : InClass(s[i], B)

analyze_number_placement(s) ==
    IF ~has_digit(s) THEN "None"
    ELSE IF MatchTwoRuns(s, "[^0-9]", "[0-9]") THEN "end"
    ELSE IF MatchTwoRuns(s, "[0-9]", "[^0-9]") THEN "start"
    ELSE "mixed"

analyze_symbol_placement(s) ==
    IF ~has_symbol(s) THEN "None"
    ELSE IF MatchTwoRuns(s, "[a-zA-Z0-9]", "[^a-zA-Z0-9]") THEN "end"
    ELSE IF MatchTwoRuns(s, "[^a-zA-Z0-9]", "[a-zA-Z0-9]") THEN "start"
    ELSE "mixed"

\* one repetition of ([a-z][A-Z]|[A-Z][a-z]) at 1-based position i
CasePair(s, i) ==
    \/ IsAsciiLower(s[i]) /\ IsAsciiUpper(s[i + 1])
    \/ IsAsciiUpper(s[i]) /\ IsAsciiLower(s[i + 1])

analyze_case_pattern(s) ==
    IF ~(has_lower(s) \/ has_upper(s)) THEN "None"
    ELSE IF IsAsciiUpper(s[1]) /\ \A i \in 2..Len(s) : ~IsAsciiUpper(s[i])
         THEN "first_only"
    ELSE IF StrIsUpper(s) THEN "all_caps"
    ELSE IF \E i \in 1..(Len(s) - 3) : CasePair(s, i) /\ CasePair(s, i + 2)
         THEN "alternating"
    ELSE "mixed"

get_adaptive_feedback(s, lower, upper, digit, symbol, length) ==
    LET num_placement == analyze_number_placement(s)
        sym_placement == analyze_symbol_placement(s)
        case_pattern  == analyze_case_pattern(s)
        lengthPart ==
            IF length < 8 THEN <<Plain("Too short")>>
            ELSE IF length < 12 THEN <<Plain("Length could be stronger")>>
            ELSE <<>>
        numberPart ==
            IF ~digit THEN <<Plain("Missing numbers")>>
            ELSE IF num_placement = "end" THEN <<Plain("Numbers only at the end")>>
            ELSE IF num_placement = "start" THEN <<Plain("Numbers only at the beginning")>>
            ELSE <<>>
        symbolPart ==
            IF ~symbol THEN <<Plain("Missing special characters")>>
            ELSE IF sym_placement = "end" THEN <<Plain("Symbol only at the end")>>
            ELSE IF sym_placement = "start" THEN <<Plain("Symbol only at the beginning")>>
            ELSE <<>>
        casePart ==
            IF ~lower /\ ~upper THEN <<>>
            ELSE IF ~upper THEN <<Plain("All lowercase")>>
            ELSE IF ~lower THEN <<Plain("All uppercase")>>
            ELSE IF case_pattern = "first_only" THEN <<Plain("Only first letter capitalized")>>
            ELSE IF case_pattern = "all_caps" THEN <<Plain("All capitals")>>
            ELSE <<>>
    IN  lengthPart \o numberPart \o symbolPart \o casePart

-----------------------------------------------------------------------------
(* Pattern detectors *)

\* the least element of a non-empty set of integers
Least(S) == CHOOSE x \in S : \A y \in S : x <= y

\* length of the run of s[i] that starts at 0-based index i
RunOfSame(s, i) ==
    Least({n \in 1..(Len(s) - i) : i + n = Len(s) \/ s[i + n + 1] # s[i + 1]})

\* 0-based starts of a match of (.)\1{2,} ; "." matches anything but a newline
RepeatStarts(s) ==
    {i \in 0..(Len(s) - 3) :
        s[i + 1] # 10 /\ s[i + 2] = s[i + 1] /\ s[i + 3] = s[i + 1]}

\* the (length, i) pairs at which the repeated-sequence loop finds a chunk
\* followed by itself, encoded as length * (Len + 1) + i to keep loop order
RepeatedChunks(s) ==
    LET matches ==
            {lp \in (2..(Len(s) \div 2)) \X (0..Len(s)) :
                /\ lp[2] <= Len(s) - lp[1] * 2
                /\ \A k \in 1..lp[1] : s[lp[2] + lp[1] + k] = s[lp[2] + k]}
    IN  {lp[1] * (Len(s) + 1) + lp[2] : lp \in matches}

detect_repetition(s) ==
    IF RepeatStarts(s) # {}
    THEN LET i == Least(RepeatStarts(s))
             repeat_count == RunOfSame(s, i)
         IN  IF repeat_count >= 4
             THEN Hit(15, Msg("Repeated char", <<s[i + 1]>>, repeat_count))
             ELSE Hit(10, Msg("Repeated char x 3", <<s[i + 1]>>, 3))
    ELSE IF RepeatedChunks(s) # {}
    THEN LET first  == Least(RepeatedChunks(s))
             length == first \div (Len(s) + 1)
             i      == first % (Len(s) + 1)
         IN  Hit(12, Msg("Repeated sequence", Slice(s, i, i + length), 0))
    ELSE NoHit

\* 0-based starts of three characters with consecutive code points
OrdRunStarts(s) ==
    {i \in 0..(Len(s) - 3) : s[i + 2] = s[i + 1] + 1 /\ s[i + 3] = s[i + 2] + 1}

\* the while loop of the alphabetic scan: j is the 0-based index examined
RECURSIVE ExtendOrdRun(_, _, _)
ExtendOrdRun(s, j, seq_len) ==
    IF j < Len(s) /\ s[j + 1] = s[j] + 1
    THEN ExtendOrdRun(s, j + 1, seq_len + 1)
    ELSE seq_len

\* the while loop of the numeric scan; int() of a digit that is not a
\* decimal digit raises ValueError
RECURSIVE ExtendNumRun(_, _, _)
ExtendNumRun(s, j, seq_len) ==
    IF j < Len(s) /\ CharIsDigit(s[j + 1])
    THEN IF ~IsDecimal(s[j + 1]) THEN [raised |-> "ValueError", seq_len |-> 0]
         ELSE IF DecimalValue(s[j + 1]) = DecimalValue(s[j]) + 1
              THEN ExtendNumRun(s, j + 1, seq_len + 1)
              ELSE [raised |-> "", seq_len |-> seq_len]
    ELSE [raised |-> "", seq_len |-> seq_len]

\* the numeric scan from 0-based index i on
RECURSIVE NumericScan(_, _)
NumericScan(s, i) ==
    IF i >= Len(s) - 2 THEN NoHit
    ELSE IF ~StrIsDigit(Slice(s, i, i + 3)) THEN NumericScan(s, i + 1)
    ELSE IF \E k \in 1..3 : ~IsDecimal(s[i + k]) THEN Raise("ValueError")
    ELSE IF /\ DecimalValue(s[i + 2]) = DecimalValue(s[i + 1]) + 1
            /\ DecimalValue(s[i + 3]) = DecimalValue(s[i + 2]) + 1
         THEN LET ext == ExtendNumRun(s, i + 3, 3)
              IN  IF ext.raised # "" THEN Raise(ext.raised)
                  ELSE IF ext.seq_len >= 4
                       THEN Hit(15, Msg("Numeric sequence (n digits)", <<>>, ext.seq_len))
                       ELSE Hit(10, Msg("Numeric sequence", Slice(s, i, i + 3), 0))
    ELSE NumericScan(s, i + 1)

detect_sequences(s) ==
    LET pw_lower == Lower(s)
    IN  IF OrdRunStarts(pw_lower) # {}
        THEN LET i == Least(OrdRunStarts(pw_lower))
                 seq_len == ExtendOrdRun(pw_lower, i + 3, 3)
             IN  IF seq_len >= 4
                 THEN Hit(15, Msg("Sequential pattern (n chars)", <<>>, seq_len))
                 ELSE Hit(10, Msg("Sequential", Slice(pw_lower, i, i + 3), 0))
        ELSE NumericScan(s, 0)

\* the loop over KEYBOARD_PATTERNS from table index k on
RECURSIVE KeyboardScan(_, _)
KeyboardScan(pw_lower, k) ==
    IF k > Len(KEYBOARD_PATTERNS) THEN NoHit
    ELSE LET pattern == KEYBOARD_PATTERNS[k]
         IN  IF Contains(pw_lower, pattern)
             THEN Hit(12, Msg("Keyboard walk", pattern, 0))
             ELSE IF Contains(pw_lower, Reverse(pattern))
             THEN Hit(12, Msg("Reverse keyboard walk", Reverse(pattern), 0))
             ELSE KeyboardScan(pw_lower, k + 1)

detect_keyboard_walk(s) == KeyboardScan(Lower(s), 1)

\* \b at 0-based position pos: exactly one side is a word character
WordBoundary(s, pos) ==
    LET before == pos >= 1 /\ pos <= Len(s) /\ IsWordChar(s[pos])
        after  == pos >= 0 /\ pos < Len(s) /\ IsWordChar(s[pos + 1])
    IN  before # after

\* (19[5-9]\d|20[0-4]\d) matched at 0-based index i
YearAt(s, i) ==
    /\ i + 4 <= Len(s)
    /\ \/ s[i + 1] = 49 /\ s[i + 2] = 57 /\ s[i + 3] \in 53..57 /\ IsDecimal(s[i + 4])
       \/ s[i + 1] = 50 /\ s[i + 2] = 48 /\ s[i + 3] \in 48..52 /\ IsDecimal(s[i + 4])

\* \b\d{2}[/-]\d{2}[/-]\d{2,4}\b matched at 0-based index i
DelimitedDateAt(s, i) ==
    \E n \in 2..4 :
        /\ i + 6 + n <= Len(s)
        /\ WordBoundary(s, i)
        /\ IsDecimal(s[i + 1]) /\ IsDecimal(s[i + 2])
        /\ s[i + 3] \in {47, 45}
        /\ IsDecimal(s[i + 4]) /\ IsDecimal(s[i + 5])
        /\ s[i + 6] \in {47, 45}
        /\ \A k \in 1..n : IsDecimal(s[i + 6 + k])
        /\ WordBoundary(s, i + 6 + n)

\* \b(19[5-9]\d|20[0-4]\d)(0[1-9]|1[0-2])(0[1-9]|[12]\d|3[01])\b at index i
CompactDateAt(s, i) ==
    /\ i + 8 <= Len(s)
    /\ WordBoundary(s, i)
    /\ YearAt(s, i)
    /\ \/ s[i + 5] = 48 /\ s[i + 6] \in 49..57
       \/ s[i + 5] = 49 /\ s[i + 6] \in 48..50
    /\ \/ s[i + 7] = 48 /\ s[i + 8] \in 49..57
       \/ s[i + 7] \in 49..50 /\ IsDecimal(s[i + 8])
       \/ s[i + 7] = 51 /\ s[i + 8] \in 48..49
    /\ WordBoundary(s, i + 8)

detect_date_patterns_CompactFirst(s) ==
    IF \E i \in 0..Len(s) : CompactDateAt(s, i)
    THEN Hit(8, Plain("Compact date (YYYYMMDD)"))
    ELSE IF \E i \in 0..Len(s) : YearAt(s, i)
    THEN Hit(8, Plain("Birth year detected"))
    ELSE IF \E i \in 0..Len(s) : DelimitedDateAt(s, i)
    THEN Hit(8, Plain("Date format detected (DD/MM/YYYY)"))
    ELSE NoHit

\* the loop over date_patterns: the first pattern that re.search finds wins
detect_date_patterns(s) ==
    IF \E i \in 0..Len(s) : YearAt(s, i)
    THEN Hit(8, Plain("Birth year detected"))
    ELSE IF \E i \in 0..Len(s) : DelimitedDateAt(s, i)
    THEN Hit(8, Plain("Date format detected (DD/MM/YYYY)"))
    ELSE IF \E i \in 0..Len(s) : CompactDateAt(s, i)
    THEN Hit(8, Plain("Compact date (YYYYMMDD)"))
    ELSE NoHit

-----------------------------------------------------------------------------
(* Floating point.  A positive float is [e, m] with value m * 2^(e - 29) and  *)
(* 2^29 <= m < 2^30: a 30-bit mantissa in place of the 53 bits of a double.   *)

TwoTo29 == 536870912

\* the float of an integer 1 <= n < 2^30
RECURSIVE Normalize(_, _)
Normalize(n, e) == IF n < TwoTo29 THEN Normalize(2 * n, e - 1) ELSE [e |-> e, m |-> n]
Float(n) == Normalize(n, 29)

FLess(a, b) == a.e < b.e \/ (a.e = b.e /\ a.m < b.m)

\* floor(r * 2^bits / den) added below q * 2^bits, for 0 <= r < den
RECURSIVE LongDiv(_, _, _, _)
LongDiv(q, r, den, bits) ==
    IF bits = 0 THEN q
    ELSE IF 2 * r >= den THEN LongDiv(2 * q + 1, 2 * r - den, den, bits - 1)
    ELSE LongDiv(2 * q, 2 * r, den, bits - 1)

\* a / b
FDiv(a, b) ==
    IF a.m >= b.m
    THEN [e |-> a.e - b.e, m |-> LongDiv(a.m \div b.m, a.m % b.m, b.m, 29)]
    ELSE [e |-> a.e - b.e - 1, m |-> LongDiv(0, a.m, b.m, 30)]

\* int(a / b)
FFloorDiv(a, b) ==
    IF a.e < b.e THEN 0
    ELSE LongDiv(a.m \div b.m, a.m % b.m, b.m, a.e - b.e)

\* 2 ** (f / 100) for f = 0..99, as mantissas: floor(2^(f/100) * 2^29)
Pow2Frac == <<
    536870912, 540605144, 544365350, 548151711, 551964407,
    555803623, 559669543, 563562353, 567482239, 571429390,
    575403996, 579406247, 583436336, 587494457, 591580804,
    595695574, 599838964, 604011174, 608212404, 612442856,
    616702733, 620992240, 625311582, 629660968, 634040607,
    638450708, 642891484, 647363148, 651865914, 656400000,
    660965623, 665563003, 670192360, 674853916, 679547896,
    684274526, 689034032, 693826642, 698652588, 703512101,
    708405415, 713332764, 718294386, 723290519, 728321402,
    733387278, 738488390, 743624983, 748797304, 754005601,
    759250124, 764531127, 769848861, 775203584, 780595551,
    786025022, 791492259, 796997523, 802541079, 808123194,
    813744135, 819404173, 825103580, 830842629, 836621596,
    842440760, 848300399, 854200795, 860142231, 866124993,
    872149369, 878215648, 884324121, 890475081, 896668825,
    902905650, 909185856, 915509743, 921877617, 928289783,
    934746549, 941248226, 947795125, 954387561, 961025852,
    967710315, 974441273, 981219048, 988043966, 994916355,
    1001836546, 1008804870, 1015821663, 1022887261, 1030002005,
    1037166235, 1044380297, 1051644536, 1058959303, 1066324947 >>

\* 2 ** entropy, entropy in hundredths of a bit
Pow2(entropy) == [e |-> entropy \div 100, m |-> Pow2Frac[(entropy % 100) + 1]]

\* the two attacker speeds check_strength passes: 10_000_000_000 (the default)
\* and 100_000_000_000, as floats
OfflineSpeed == [e |-> 33, m |-> 625000000]
FastSpeed    == [e |-> 36, m |-> 781250000]

\* 2 * attack_speed
Twice(a) == [e |-> a.e + 1, m |-> a.m]

\* the breakpoints 1, 60, 3600, 86400 and 31536000, as floats
OneSecond == Float(1)
OneMinute == Float(60)
OneHour   == Float(3600)
OneDay    == Float(86400)
OneYear   == Float(31536000)

\* 31536000 * 100 and 31536000 * 1000, as floats
HundredYears  == [e |-> 31, m |-> 788400000]
ThousandYears == [e |-> 34, m |-> 985500000]

\* the string estimate_crack_time returns: its format and the number put in
CrackString(fmt, n) == [raised |-> "", fmt |-> fmt, n |-> n]

NothingToCrack_Strict(entropy) == entropy < 0

\* the guard "if entropy <= 0" of estimate_crack_time
NothingToCrack(entropy) == entropy <= 0

estimate_crack_time(entropy, attack_speed) ==
    IF NothingToCrack(entropy) THEN CrackString("Instantly", 0)
    \* 2 ** entropy overflows a double from 1024 bits on
    ELSE IF entropy >= 102400 THEN [raised |-> "OverflowError", fmt |-> "", n |-> 0]
    ELSE LET attempts == Pow2(entropy)
             seconds  == FDiv(attempts, Twice(attack_speed))
         IN  IF FLess(seconds, OneSecond) THEN CrackString("Less than 1 second", 0)
             ELSE IF FLess(seconds, OneMinute)
                  THEN CrackString("~{n} seconds", FFloorDiv(seconds, OneSecond))
             ELSE IF FLess(seconds, OneHour)
                  THEN CrackString("~{n} minute(s)", FFloorDiv(seconds, OneMinute))
             ELSE IF FLess(seconds, OneDay)
                  THEN CrackString("~{n} hour(s)", FFloorDiv(seconds, OneHour))
             ELSE IF FLess(seconds, OneYear)
                  THEN CrackString("~{n} day(s)", FFloorDiv(seconds, OneDay))
             ELSE IF FLess(seconds, HundredYears)
                  THEN CrackString("~{n} year(s)", FFloorDiv(seconds, OneYear))
             ELSE IF FLess(seconds, ThousandYears)
                  THEN CrackString("~{n} centuries", FFloorDiv(seconds, OneYear))
             ELSE CrackString("Multiple millennia", 0)

-----------------------------------------------------------------------------
(* load_dictionary *)

\* str.strip(): without the white space at both ends
IsSpace(c) == c \in {9, 10, 11, 12, 13, 32}
RECURSIVE Strip(_)
Strip(line) ==
    IF line = <<>> THEN line
    ELSE IF IsSpace(Head(line)) THEN Strip(Tail(line))
    ELSE IF IsSpace(line[Len(line)]) THEN Strip(SubSeq(line, 1, Len(line) - 1))
    ELSE line

\* a dictionary.txt is the sequence of its lines; MissingFile is the
\* FileNotFoundError
MissingFile == [found |-> FALSE, lines |-> <<>>]
File(lines) == [found |-> TRUE, lines |-> lines]

load_dictionary(file) ==
    IF ~file.found THEN {}
    ELSE {Lower(Strip(file.lines[k])) :
            k \in {k \in 1..Len(file.lines) : Strip(file.lines[k]) # <<>>}}

-----------------------------------------------------------------------------
(* check_strength *)

RECURSIVE LongestMatch_AnyLength(_, _, _, _)
LongestMatch_AnyLength(order, k, pw_lower, longest_match) ==
    IF k > Len(order) THEN longest_match
    ELSE LET word == order[k]
         IN  IF Contains(pw_lower, word) /\ Len(word) > Len(longest_match)
             THEN LongestMatch_AnyLength(order, k + 1, pw_lower, word)
             ELSE LongestMatch_AnyLength(order, k + 1, pw_lower, longest_match)

\* the loop "for word in dictionary_words" over the words in iteration order,
\* from index k on, with the longest match found so far
RECURSIVE LongestMatch(_, _, _, _)
LongestMatch(order, k, pw_lower, longest_match) ==
    IF k > Len(order) THEN longest_match
    ELSE LET word == order[k]
         IN  IF Len(word) >= 4 /\ Contains(pw_lower, word) /\ Len(word) > Len(longest_match)
             THEN LongestMatch(order, k + 1, pw_lower, word)
             ELSE LongestMatch(order, k + 1, pw_lower, longest_match)

\* check_strength left by an exception
Raised(error) ==
    [raised |-> error, rating |-> "", entropy |-> 0, feedback |-> <<>>,
     crack_time |-> CrackString("", 0), crack_time_fast |-> CrackString("", 0),
     pattern_penalties |-> <<>>,
     strength_points |-> 0, base |-> 0, after_dictionary |-> 0]

RatingOf_NoLengthTest(strength_points, length, entropy) ==
    IF strength_points <= 2 \/ entropy < 3000 THEN "Weak"
    ELSE IF strength_points = 3 \/ entropy < 5000 THEN "Moderate"
    ELSE IF strength_points = 4 \/ entropy < 7000 THEN "Strong"
    ELSE "Very Strong"

\* the rating chain at the end of check_strength; entropy in hundredths
RatingOf(strength_points, length, entropy) ==
    IF strength_points <= 2 \/ length < 8 \/ entropy < 3000 THEN "Weak"
    ELSE IF strength_points = 3 \/ entropy < 5000 THEN "Moderate"
    ELSE IF strength_points = 4 \/ entropy < 7000 THEN "Strong"
    ELSE "Very Strong"

\* the dictionary step: the message appended and the bits taken off
DictionaryStep(s, words, order) ==
    LET pw_lower == Lower(s)
        longest_match == LongestMatch(order, 1, pw_lower, <<>>)
    IN  IF pw_lower \in words
        THEN [feedback |-> <<Msg("Extremely common password (dictionary)", pw_lower, 0)>>,
              bits |-> 20]
        ELSE IF longest_match # <<>>
        THEN IF Len(s) <= 6
             THEN [feedback |-> <<Msg("Contains dictionary word (short)", longest_match, 0)>>,
                   bits |-> 20]
             ELSE IF Len(s) <= 10
             THEN [feedback |-> <<Msg("Contains dictionary word", longest_match, 0)>>,
                   bits |-> 10]
             ELSE [feedback |-> <<>>, bits |-> 0]
        ELSE [feedback |-> <<>>, bits |-> 0]

\* what one detector adds to feedback and to pattern_penalties
PatternFeedback(d) == IF d.hit THEN <<d.desc>> ELSE <<>>
PatternPenalty(label, d) == IF d.hit THEN <<<<label, d.penalty>>>> ELSE <<>>

PatternPenalties_Swapped(rep, seq, walk, date) ==
    PatternPenalty("Sequence", seq) \o PatternPenalty("Repetition", rep)
    \o PatternPenalty("Keyboard walk", walk) \o PatternPenalty("Date pattern", date)

\* pattern_penalties after the four "if has_..." blocks
PatternPenalties(rep, seq, walk, date) ==
    PatternPenalty("Repetition", rep) \o PatternPenalty("Sequence", seq)
    \o PatternPenalty("Keyboard walk", walk) \o PatternPenalty("Date pattern", date)

FloorAtZero_Missing(entropy) == entropy

\* the entropy floor: "if entropy < 0: entropy = 0"
FloorAtZero(entropy) == IF entropy < 0 THEN 0 ELSE entropy

\* check_strength(password) with the module's dictionary_words (words) as the
\* process iterates it (order). The record holds the returned tuple and the
\* locals strength_points, base (the entropy of calculate_entropy) and
\* after_dictionary (the entropy after the dictionary step).
check_strength(s, words, order) ==
    LET lower  == has_lower(s)
        upper  == has_upper(s)
        digit  == has_digit(s)
        symbol == has_symbol(s)
        length == Len(s)
        strength_points ==
            (IF length >= 8 THEN 1 ELSE 0) + (IF lower THEN 1 ELSE 0)
            + (IF upper THEN 1 ELSE 0) + (IF digit THEN 1 ELSE 0)
            + (IF symbol THEN 1 ELSE 0)
        adaptive == get_adaptive_feedback(s, lower, upper, digit, symbol, length)
        common ==
            IF Lower(s) \in Range(common_passwords)
            THEN <<Plain("Extremely common password")>> ELSE <<>>
        base == calculate_entropy(s)
        rep  == detect_repetition(s)
        seq  == detect_sequences(s)
        walk == detect_keyboard_walk(s)
        date == detect_date_patterns(s)
        pattern_penalties == PatternPenalties(rep, seq, walk, date)
        total_pattern_penalty == rep.penalty + seq.penalty + walk.penalty + date.penalty
        dict == DictionaryStep(s, words, order)
        after_dictionary == base - 100 * dict.bits
        entropy == FloorAtZero(after_dictionary - 100 * total_pattern_penalty)
        crack_time == estimate_crack_time(entropy, OfflineSpeed)
        crack_time_fast == estimate_crack_time(entropy, FastSpeed)
        rating == RatingOf(strength_points, length, entropy)
        feedback ==
            adaptive \o common \o PatternFeedback(rep) \o PatternFeedback(seq)
            \o PatternFeedback(walk) \o PatternFeedback(date) \o dict.feedback
        positive ==
            IF feedback = <<>> \/ (rating \in {"Strong", "Very Strong"} /\ entropy >= 7000)
            THEN <<Plain("Excellent password strength")>> ELSE <<>>
    IN  IF seq.raised # "" THEN Raised(seq.raised)
        ELSE IF crack_time.raised # "" THEN Raised(crack_time.raised)
        ELSE [raised |-> "", rating |-> rating, entropy |-> entropy,
              feedback |-> feedback \o positive,
              crack_time |-> crack_time, crack_time_fast |-> crack_time_fast,
              pattern_penalties |-> pattern_penalties,
              strength_points |-> strength_points, base |-> base,
              after_dictionary |-> after_dictionary]

-----------------------------------------------------------------------------
(* The inputs of the model *)

\* what the user types into the password field, piece by piece
Pieces == {
    <<97, 97>>,                          \* "aa"
    <<97, 98, 99>>,                      \* "abc"
    <<49, 50, 51, 52>>,                  \* "1234"
    <<49, 57, 56, 55>>,                  \* "1987"
    <<113, 119, 101, 114, 116, 121>>,    \* "qwerty"
    <<112, 97, 115, 115>>,               \* "pass"
    <<119, 111, 114, 100>>,              \* "word"
    <<88, 107, 55, 33>>,                 \* "Xk7!"
    <<43, 44, 45>>,                      \* "+,-"
    <<178>>,                             \* SUPERSCRIPT TWO
    <<49, 1634, 51>>                     \* "1", ARABIC-INDIC DIGIT TWO, "3"
}

\* the dictionary.txt files the process may find at start-up
DictionaryFiles == {
    MissingFile,
    \* "Pass\n", "word\n", "\n"
    File(<< <<80, 97, 115, 115, 10>>, <<119, 111, 114, 100, 10>>, <<10>> >>),
    \* "password\n", " abc\n"
    File(<< <<112, 97, 115, 115, 119, 111, 114, 100, 10>>, <<32, 97, 98, 99, 10>> >>)
}

\* the orders in which a set can be iterated
Orders(S) ==
    {o \in [1..Cardinality(S) -> S] : \A i, j \in 1..Cardinality(S) : o[i] = o[j] => i = j}

\* the entropies handed to estimate_crack_time on its own, in hundredths:
\* from below zero to MaxCrackBits, and around the 1024 bits where 2 ** entropy
\* leaves the doubles
CrackEntropies == (-100..(100 * MaxCrackBits)) \cup (102350..102450)

\* the characters of the passwords handed to detect_repetition on its own:
\* "a", "b" and the newline
RepChars == {97, 98, 10}

\* the pieces of the passwords handed to detect_date_patterns on its own
DatePieces == {
    <<49, 57, 56, 55>>,                  \* "1987"
    <<50, 48, 53, 48>>,                  \* "2050"
    <<48, 54>>,                          \* "06"
    <<49, 53>>,                          \* "15"
    <<49, 51>>,                          \* "13"
    <<48, 54, 47>>,                      \* "06/"
    <<97>>,                              \* "a"
    <<32>>                               \* " "
}

-----------------------------------------------------------------------------
(* The web application: home() of app.py *)

Init ==
    /\ \E file \in DictionaryFiles : dictionary_words = load_dictionary(file)
    /\ iterOrder \in Orders(dictionary_words)
    /\ password = <<>>
    /\ typed = 0
    /\ result = None
    /\ entropyArg = 0
    /\ speedArg = OfflineSpeed
    /\ crackOut = None
    /\ detected = None

\* the user types one more piece into the form
Type(piece) ==
    /\ result = None
    /\ typed < MaxPieces
    /\ password' = password \o piece
    /\ typed' = typed + 1
    /\ UNCHANGED <<dictionary_words, iterOrder, result, entropyArg, speedArg, crackOut,
                   detected>>

\* POST: home() calls check_strength on the submitted password
Post ==
    /\ result = None
    /\ result' = check_strength(password, dictionary_words, iterOrder)
    /\ UNCHANGED <<dictionary_words, iterOrder, password, typed, entropyArg, speedArg,
                   crackOut, detected>>

\* GET: home() renders the empty form, result is None
Get ==
    /\ result # None
    /\ result' = None
    /\ password' = <<>>
    /\ typed' = 0
    /\ UNCHANGED <<dictionary_words, iterOrder, entropyArg, speedArg, crackOut, detected>>

Next ==
    \/ \E piece \in Pieces : Type(piece)
    \/ Post
    \/ Get

Spec == Init /\ [][Next]_vars

-----------------------------------------------------------------------------
(* estimate_crack_time called on its own *)

CrackInit ==
    /\ dictionary_words = {}
    /\ iterOrder = <<>>
    /\ password = <<>>
    /\ typed = 0
    /\ result = None
    /\ entropyArg = 0
    /\ speedArg = OfflineSpeed
    /\ crackOut = None
    /\ detected = None

Estimate(entropy, attack_speed) ==
    /\ crackOut = None
    /\ entropyArg' = entropy
    /\ speedArg' = attack_speed
    /\ crackOut' = estimate_crack_time(entropy, attack_speed)
    /\ UNCHANGED <<dictionary_words, iterOrder, password, typed, result, detected>>

CrackNext ==
    \E entropy \in CrackEntropies : \E attack_speed \in {OfflineSpeed, FastSpeed} :
        Estimate(entropy, attack_speed)

CrackSpec == CrackInit /\ [][CrackNext]_vars

-----------------------------------------------------------------------------
(* detect_repetition and detect_date_patterns called on their own *)

\* no password built and no detector called yet
DetectorInit ==
    /\ dictionary_words = {}
    /\ iterOrder = <<>>
    /\ password = <<>>
    /\ typed = 0
    /\ result = None
    /\ entropyArg = 0
    /\ speedArg = OfflineSpeed
    /\ crackOut = None
    /\ detected = None

\* the argument grows by one character
AppendChar(c) ==
    /\ detected = None
    /\ Len(password) < MaxRepLen
    /\ password' = Append(password, c)
    /\ typed' = typed + 1
    /\ UNCHANGED <<dictionary_words, iterOrder, result, entropyArg, speedArg, crackOut,
                   detected>>

DetectRepetition ==
    /\ detected = None
    /\ detected' = detect_repetition(password)
    /\ UNCHANGED <<dictionary_words, iterOrder, password, typed, result, entropyArg,
                   speedArg, crackOut>>

RepNext ==
    \/ \E c \in RepChars : AppendChar(c)
    \/ DetectRepetition

RepSpec == DetectorInit /\ [][RepNext]_vars

\* the argument grows by one piece
AppendPiece(piece) ==
    /\ detected = None
    /\ typed < MaxDatePieces
    /\ password' = password \o piece
    /\ typed' = typed + 1
    /\ UNCHANGED <<dictionary_words, iterOrder, result, entropyArg, speedArg, crackOut,
                   detected>>

DetectDate ==
    /\ detected = None
    /\ detected' = detect_date_patterns(password)
    /\ UNCHANGED <<dictionary_words, iterOrder, password, typed, result, entropyArg,
                   speedArg, crackOut>>

DateNext ==
    \/ \E piece \in DatePieces : AppendPiece(piece)
    \/ DetectDate

DateSpec == DetectorInit /\ [][DateNext]_vars

-----------------------------------------------------------------------------
(* Properties *)

\* check_strength has been called and has returned its tuple
Returned == result # None /\ result.raised = ""

\* C1: for every password and dictionary, the entropy check_strength returns
\* lies between 0 and calculate_entropy(password): penalties only subtract
\* and the result is floored at 0.
EntropyWithinBase ==
    Returned => 0 <= result.entropy /\ result.entropy <= calculate_entropy(password)

\* "abc" with "abc" in the dictionary: 14.1 bits, less 20 for the dictionary
\* and 10 for the sequence, floored at 0
EntropyFloored ==
    /\ Returned
    /\ calculate_entropy(password) > 0
    /\ result.after_dictionary < calculate_entropy(password)
    /\ result.pattern_penalties # <<>>
    /\ result.entropy = 0

\* C2: check_strength is total: whatever the password, it returns a tuple and
\* no stage raises.
NeverRaises == result # None => result.raised = ""

\* C3: the rating is Weak if strengthPoints <= 2 or length < 8 or entropy < 30;
\* otherwise Moderate if strengthPoints = 3 or entropy < 50; otherwise Strong
\* if strengthPoints = 4 or entropy < 70; otherwise Very Strong, where
\* strengthPoints counts the criteria met among length >= 8, lower, upper,
\* digit, symbol.
CriteriaMet(s) ==
    {c \in {"length", "lower", "upper", "digit", "symbol"} :
        \/ c = "length" /\ Len(s) >= 8
        \/ c = "lower"  /\ \E i \in 1..Len(s) : s[i] \in 97..122
        \/ c = "upper"  /\ \E i \in 1..Len(s) : s[i] \in 65..90
        \/ c = "digit"  /\ \E i \in 1..Len(s) : s[i] \in 48..57
        \/ c = "symbol" /\ \E i \in 1..Len(s) :
                               s[i] \notin (97..122) \cup (65..90) \cup (48..57)}

RatingIsDecisionTable ==
    Returned =>
        LET points == Cardinality(CriteriaMet(password))
            weak     == points <= 2 \/ Len(password) < 8 \/ result.entropy < 3000
            moderate == ~weak /\ (points = 3 \/ result.entropy < 5000)
            strong   == ~weak /\ ~moderate /\ (points = 4 \/ result.entropy < 7000)
        IN  /\ weak <=> result.rating = "Weak"
            /\ moderate <=> result.rating = "Moderate"
            /\ strong <=> result.rating = "Strong"
            /\ (~weak /\ ~moderate /\ ~strong) <=> result.rating = "Very Strong"

\* a rating of Very Strong is reached
RatedVeryStrong ==
    Returned /\ result.rating = "Very Strong" /\ Cardinality(CriteriaMet(password)) = 5

\* the other three ratings are reached past the Weak tests
RatedStrong == Returned /\ result.rating = "Strong"
RatedModerate == Returned /\ result.rating = "Moderate"
RatedWeakLong ==
    Returned /\ result.rating = "Weak" /\ Len(password) >= 8
    /\ Cardinality(CriteriaMet(password)) >= 3


\* C4 speaks of a password with strengthPoints = 5 and a final entropy of
\* exactly 70 bits. No call returns such a result: with all four classes the
\* pool is 94, the base entropy is round(length * log2(94), 2), which is no
\* whole number of bits for any length in reach, and penalties are whole bits.
FiveCriteriaAtSeventyBits ==
    Returned /\ Cardinality(CriteriaMet(password)) = 5 /\ result.entropy = 7000

NeverFiveCriteriaAtSeventyBits == ~FiveCriteriaAtSeventyBits

\* C5: the result of check_strength does not depend on the order in which the
\* dictionary set is iterated: every order gives the tuple this call returned.
OrderIndependent ==
    result # None =>
        \A order \in Orders(dictionary_words) :
            check_strength(password, dictionary_words, order) = result

\* C6: the dictionary takes off 20 bits when the lower-cased password is a
\* dictionary entry; otherwise, when a dictionary word of 4 or more characters
\* occurs in it, 20 bits for a password of at most 6 characters, 10 bits for
\* 7 to 10, nothing beyond; and nothing, with no dictionary message, when
\* nothing matches.
DictionaryExact(s, words) == Lower(s) \in words
DictionarySubstring(s, words) ==
    \E w \in words : Len(w) >= 4 /\ Contains(Lower(s), w)

ClaimedDictionaryBits(s, words) ==
    IF DictionaryExact(s, words) THEN 20
    ELSE IF ~DictionarySubstring(s, words) THEN 0
    ELSE IF Len(s) <= 6 THEN 20
    ELSE IF Len(s) <= 10 THEN 10
    ELSE 0

DictionaryMessages ==
    {"Extremely common password (dictionary)", "Contains dictionary word (short)",
     "Contains dictionary word"}

DictionaryPenaltyPolicy ==
    Returned =>
        /\ result.base - result.after_dictionary
             = 100 * ClaimedDictionaryBits(password, dictionary_words)
        /\ (~DictionaryExact(password, dictionary_words)
            /\ ~DictionarySubstring(password, dictionary_words))
           => \A i \in 1..Len(result.feedback) :
                  result.feedback[i].msg \notin DictionaryMessages

\* "password" with "password" in the dictionary: 8 characters, where a mere
\* substring would cost 10 bits, and the exact match costs 20
ExactMatchTakesTwenty ==
    /\ Returned
    /\ DictionaryExact(password, dictionary_words)
    /\ DictionarySubstring(password, dictionary_words)
    /\ Len(password) \in 7..10
    /\ result.base - result.after_dictionary = 2000

\* the substring cases of C6 are reached as well
SubstringTakesTwenty ==
    Returned /\ ~DictionaryExact(password, dictionary_words)
    /\ Len(password) <= 6 /\ result.base - result.after_dictionary = 2000
SubstringTakesTen ==
    Returned /\ ~DictionaryExact(password, dictionary_words)
    /\ result.base - result.after_dictionary = 1000
SubstringTakesNothing ==
    Returned /\ DictionarySubstring(password, dictionary_words)
    /\ result.base = result.after_dictionary

\* C7: estimate_crack_time maps seconds = 2^entropy / (2 * attackSpeed) to
\* "Instantly" for entropy <= 0, "Less than 1 second" below 1, then the whole
\* number of seconds below 60, of minutes below 3600, of hours below 86400, of
\* days below 31536000, of years below 100 years, of centuries below 1000
\* years, and the millennia message beyond: in every bucket the number is the
\* whole count of the bucket's own unit.
ClaimedCrackTime(entropy, attack_speed) ==
    LET seconds == FDiv(Pow2(entropy), Twice(attack_speed))
    IN  IF entropy <= 0 THEN CrackString("Instantly", 0)
        ELSE IF FLess(seconds, Float(1)) THEN CrackString("Less than 1 second", 0)
        ELSE IF FLess(seconds, Float(60))
             THEN CrackString("~{n} seconds", FFloorDiv(seconds, Float(1)))
        ELSE IF FLess(seconds, Float(3600))
             THEN CrackString("~{n} minute(s)", FFloorDiv(seconds, Float(60)))
        ELSE IF FLess(seconds, Float(86400))
             THEN CrackString("~{n} hour(s)", FFloorDiv(seconds, Float(3600)))
        ELSE IF FLess(seconds, Float(31536000))
             THEN CrackString("~{n} day(s)", FFloorDiv(seconds, Float(86400)))
        ELSE IF FLess(seconds, HundredYears)
             THEN CrackString("~{n} year(s)", FFloorDiv(seconds, Float(31536000)))
        ELSE IF FLess(seconds, ThousandYears)
             THEN CrackString("~{n} centuries", FFloorDiv(seconds, HundredYears))
        ELSE CrackString("Multiple millennia", 0)

CrackTimeCountsOwnUnit ==
    (crackOut # None /\ crackOut.raised = "")
        => crackOut = ClaimedCrackTime(entropyArg, speedArg)

\* C8: pattern_penalties holds at most one entry per detector, an entry for
\* exactly the detectors that hit, in the order Repetition, Sequence, Keyboard
\* walk, Date pattern, each with the bits of its detector; the pattern messages
\* of the feedback list come in the same order.
DetectorLabels == <<"Repetition", "Sequence", "Keyboard walk", "Date pattern">>

LabelIndex(label) == CHOOSE k \in 1..4 : DetectorLabels[k] = label

Detector(label, s) ==
    CASE label = "Repetition"    -> detect_repetition(s)
      [] label = "Sequence"      -> detect_sequences(s)
      [] label = "Keyboard walk" -> detect_keyboard_walk(s)
      [] label = "Date pattern"  -> detect_date_patterns(s)

\* the detector a feedback message comes from, or "" for the other messages
MessageLabel(m) ==
    IF m.msg \in {"Repeated char", "Repeated char x 3", "Repeated sequence"}
    THEN "Repetition"
    ELSE IF m.msg \in {"Sequential pattern (n chars)", "Sequential",
                       "Numeric sequence (n digits)", "Numeric sequence"}
    THEN "Sequence"
    ELSE IF m.msg \in {"Keyboard walk", "Reverse keyboard walk"}
    THEN "Keyboard walk"
    ELSE IF m.msg \in {"Birth year detected", "Date format detected (DD/MM/YYYY)",
                       "Compact date (YYYYMMDD)"}
    THEN "Date pattern"
    ELSE ""

IsPatternMessage(m) == MessageLabel(m) # ""

PenaltiesListInDetectorOrder ==
    Returned =>
        LET pp == result.pattern_penalties
            messages == SelectSeq(result.feedback, IsPatternMessage)
        IN  /\ \A i \in 1..Len(pp) : pp[i][1] \in Range(DetectorLabels)
            /\ \A i, j \in 1..Len(pp) :
                   i < j => LabelIndex(pp[i][1]) < LabelIndex(pp[j][1])
            /\ \A k \in 1..4 :
                   Detector(DetectorLabels[k], password).hit
                       <=> \E i \in 1..Len(pp) : pp[i][1] = DetectorLabels[k]
            /\ \A i \in 1..Len(pp) : pp[i][2] = Detector(pp[i][1], password).penalty
            /\ Len(messages) = Len(pp)
            /\ \A i \in 1..Len(pp) :
                   /\ MessageLabel(messages[i]) = pp[i][1]
                   /\ messages[i] = Detector(pp[i][1], password).desc

\* "aaaa1234": Repetition 15, then Sequence 15
RepetitionThenSequence ==
    /\ Returned
    /\ password = <<97, 97, 97, 97, 49, 50, 51, 52>>
    /\ result.pattern_penalties = << <<"Repetition", 15>>, <<"Sequence", 15>> >>

\* C9: a final entropy of 0, as for the empty password, gives the rating Weak,
\* the entropy 0 and "Instantly" for both attacker speeds.
ZeroEntropyIsInstantlyWeak ==
    /\ (Returned /\ password = <<>>) => result.entropy = 0
    /\ (Returned /\ result.entropy = 0) =>
           /\ result.rating = "Weak"
           /\ result.crack_time = CrackString("Instantly", 0)
           /\ result.crack_time_fast = CrackString("Instantly", 0)

\* the empty password has been analysed
EmptyPasswordAnalysed ==
    Returned /\ password = <<>> /\ result.entropy = 0 /\ result.rating = "Weak"

\* a password of 8 characters whose penalties take the entropy down to 0
LongPasswordAtZero == Returned /\ Len(password) >= 8 /\ result.entropy = 0

\* C10: detect_sequences hits exactly when the lower-cased password holds 3 or
\* more letters each one alphabet position after the previous, or 3 or more
\* digits each one greater than the previous; the penalty is 10 when the first
\* such run (letters before digits) has exactly 3 letters or digits, 15 when it
\* has 4 or more.
IsLetter(c) == c \in 97..122

\* a run of n letters, each one after the previous, at 1-based index i
LetterRun(s, i, n) ==
    /\ i + n - 1 <= Len(s)
    /\ \A k \in i..(i + n - 1) : IsLetter(s[k])
    /\ \A k \in i..(i + n - 2) : s[k + 1] = s[k] + 1

\* a run of n digits, each one greater than the previous, at 1-based index i
DigitRun(s, i, n) ==
    /\ i + n - 1 <= Len(s)
    /\ \A k \in i..(i + n - 1) : IsDecimal(s[k])
    /\ \A k \in i..(i + n - 2) : DecimalValue(s[k + 1]) = DecimalValue(s[k]) + 1

ClaimedSequencePenalty(s) ==
    LET letters == {i \in 1..Len(s) : LetterRun(s, i, 3)}
        digits  == {i \in 1..Len(s) : DigitRun(s, i, 3)}
    IN  IF letters # {}
        THEN IF LetterRun(s, Least(letters), 4) THEN 15 ELSE 10
        ELSE IF digits # {}
        THEN IF DigitRun(s, Least(digits), 4) THEN 15 ELSE 10
        ELSE 0

SequencesAreLettersOrDigits ==
    (result # None /\ detect_sequences(password).raised = "") =>
        /\ detect_sequences(password).hit
               <=> ClaimedSequencePenalty(Lower(password)) > 0
        /\ detect_sequences(password).penalty = ClaimedSequencePenalty(Lower(password))

-----------------------------------------------------------------------------
(* C11: detect_repetition *)

\* 0-based starts of three equal characters, of any kind
ClaimedRunStarts(s) ==
    {i \in 0..(Len(s) - 3) : s[i + 2] = s[i + 1] /\ s[i + 3] = s[i + 1]}

\* some block of length L, 2 <= L <= floor(len / 2), is followed by itself
ClaimedRepeatedBlock(s) ==
    \E L \in 2..(Len(s) \div 2) : \E i \in 0..(Len(s) - 2 * L) :
        Slice(s, i, i + L) = Slice(s, i + L, i + 2 * L)

\* the penalty the claim gives: the leftmost run of three or more equal
\* characters decides (10 for exactly three, 15 for more); only without such
\* a run, 12 for a repeated block; otherwise 0
ClaimedRepetitionPenalty(s) ==
    IF ClaimedRunStarts(s) # {}
    THEN IF RunOfSame(s, Least(ClaimedRunStarts(s))) = 3 THEN 10 ELSE 15
    ELSE IF ClaimedRepeatedBlock(s) THEN 12
    ELSE 0

\* C11: detect_repetition returns penalty 10 when the leftmost run of three or
\* more equal characters, of any kind, has length exactly 3, and 15 when it is
\* longer; only when no character is repeated three times in a row, 12 for a
\* block of length 2..floor(len/2) followed by itself; otherwise it reports
\* no hit. The character run always takes priority over the block.
RepetitionAsClaimed ==
    detected # None =>
        /\ detected.penalty = ClaimedRepetitionPenalty(password)
        /\ detected.hit <=> ClaimedRepetitionPenalty(password) > 0

\* the same statement for the passwords without a newline
RepetitionAsClaimedOffNewline ==
    (detected # None /\ 10 \notin Range(password)) =>
        /\ detected.penalty = ClaimedRepetitionPenalty(password)
        /\ detected.hit <=> ClaimedRepetitionPenalty(password) > 0

\* a run and a repeated block together ("ababaaa"): the run has decided
RunBeatsBlock ==
    /\ detected # None
    /\ ClaimedRunStarts(password) # {}
    /\ ClaimedRepeatedBlock(password)
    /\ detected.penalty = 10

-----------------------------------------------------------------------------
(* C12: detect_date_patterns *)

\* re.search finds the first rule (a year 1950-2049) somewhere in s
BirthYearMatches(s) == \E i \in 0..Len(s) : YearAt(s, i)

\* re.search finds the third rule (compact YYYYMMDD) somewhere in s
CompactDateMatches(s) == \E i \in 0..Len(s) : CompactDateAt(s, i)

\* C12: every password the third rule of detect_date_patterns matches (compact
\* YYYYMMDD, year 1950-2049, month 01-12, day 01-31) is matched by the first
\* rule too (four digits in 1950-2049), so the first rule wins: the hit is
\* returned with the birth-year description and the compact-date description
\* is never the one returned.
CompactDateIsReportedAsBirthYear ==
    detected # None =>
        /\ CompactDateMatches(password) =>
                /\ BirthYearMatches(password)
                /\ detected = Hit(8, Plain("Birth year detected"))
        /\ detected.desc # Plain("Compact date (YYYYMMDD)")

\* " 19870615": a compact date between word boundaries has been analysed
CompactDateAnalysed ==
    /\ detected # None
    /\ CompactDateMatches(password)
    /\ detected.hit

\* "a19870615": no word boundary before the year, the year alone is found
YearWithoutCompactDate ==
    /\ detected # None
    /\ ~CompactDateMatches(password)
    /\ BirthYearMatches(password)
    /\ Len(password) >= 9

\* "06/06/13": the second rule is the one returned
DelimitedDateAnalysed ==
    detected # None /\ detected.desc = Plain("Date format detected (DD/MM/YYYY)")

====
